---- MODULE Spec2Model ----
(***************************************************************************)
(* Model of src/main.rs: a thread-per-connection HTTP server.  main binds  *)
(* a listener, builds the route table and runs the accept loop; every      *)
(* accepted stream is given to a spawned thread running handle_client.     *)
(*                                                                         *)
(* Text is modelled as Rust holds it: a sequence of bytes.  A byte is      *)
(* written as a one-character string when it is ASCII and as "xHH" when it *)
(* is not, so str::len is Len and string equality is sequence equality.    *)
(* Two ASCII bytes are written "xHH" as well: the backquote, "x60", and    *)
(* NUL, "x00".                                                             *)
(***************************************************************************)
EXTENDS Integers, Sequences, FiniteSets, TLC

(***************************************************************************)
(* Bounds of the model.                                                    *)
(***************************************************************************)
\* number of connections the peer side opens during a run
MaxConns == 2
\* number of failed accept calls during a run
MaxAcceptErrors == 1

(***************************************************************************)
(* Program constants.                                                      *)
(***************************************************************************)
\* let mut buffer = [0; 1024];
BufSize == 1024
\* let mut headers = [httparse::EMPTY_HEADER; 16];
HeaderCap == 16

(***************************************************************************)
(* Byte strings.                                                           *)
(***************************************************************************)
SP == <<" ">>
CRLF == <<"\r", "\n">>
LF == <<"\n">>

Upper ==
    {"A","B","C","D","E","F","G","H","I","J","K","L","M",
     "N","O","P","Q","R","S","T","U","V","W","X","Y","Z"}
Lower ==
    {"a","b","c","d","e","f","g","h","i","j","k","l","m",
     "n","o","p","q","r","s","t","u","v","w","x","y","z"}
Digit == {"0","1","2","3","4","5","6","7","8","9"}

\* the ASCII punctuation, 21..7E without letters and digits
Punct ==
    {"!","\"","#","$","%","&","'","(",")","*","+",",","-",".","/",
     ":",";","<","=",">","?","@","[","\\","]","^","_","x60","{","|","}","~"}

\* the bytes 80..FF, in order
HighBytes ==
    <<"x80", "x81", "x82", "x83", "x84", "x85", "x86", "x87",
      "x88", "x89", "x8A", "x8B", "x8C", "x8D", "x8E", "x8F",
      "x90", "x91", "x92", "x93", "x94", "x95", "x96", "x97",
      "x98", "x99", "x9A", "x9B", "x9C", "x9D", "x9E", "x9F",
      "xA0", "xA1", "xA2", "xA3", "xA4", "xA5", "xA6", "xA7",
      "xA8", "xA9", "xAA", "xAB", "xAC", "xAD", "xAE", "xAF",
      "xB0", "xB1", "xB2", "xB3", "xB4", "xB5", "xB6", "xB7",
      "xB8", "xB9", "xBA", "xBB", "xBC", "xBD", "xBE", "xBF",
      "xC0", "xC1", "xC2", "xC3", "xC4", "xC5", "xC6", "xC7",
      "xC8", "xC9", "xCA", "xCB", "xCC", "xCD", "xCE", "xCF",
      "xD0", "xD1", "xD2", "xD3", "xD4", "xD5", "xD6", "xD7",
      "xD8", "xD9", "xDA", "xDB", "xDC", "xDD", "xDE", "xDF",
      "xE0", "xE1", "xE2", "xE3", "xE4", "xE5", "xE6", "xE7",
      "xE8", "xE9", "xEA", "xEB", "xEC", "xED", "xEE", "xEF",
      "xF0", "xF1", "xF2", "xF3", "xF4", "xF5", "xF6", "xF7",
      "xF8", "xF9", "xFA", "xFB", "xFC", "xFD", "xFE", "xFF">>

\* the byte of value k, 128 <= k <= 255
Byte(k) == HighBytes[k - 127]
ByteRange(lo, hi) == {Byte(k) : k \in lo..hi}

\* every byte that is not ASCII
NonAscii == ByteRange(128, 255)

\* RFC 7230 tchar, the bytes httparse accepts in a method or a header name
TokenChars ==
    Upper \cup Lower \cup Digit \cup
    {"!","#","$","%","&","'","*","+","-",".","^","_","x60","|","~"}

\* Bytes httparse lets through inside the request target (URI_MAP): 21..7E
\* and 80..FF
UriChars == Upper \cup Lower \cup Digit \cup Punct \cup NonAscii

\* Bytes httparse accepts inside a header value (HEADER_VALUE_MAP): tab,
\* 20..7E and 80..FF
HeaderValueChars == UriChars \cup {" ", "\t"}

\* Bytes http::Method accepts in a method name (METHOD_CHARS, again tchar).
MethodChars == TokenChars

RECURSIVE Repeat(_, _)
Repeat(s, n) == IF n = 0 THEN <<>> ELSE s \o Repeat(s, n - 1)

Take(s, n) == SubSeq(s, 1, IF Len(s) < n THEN Len(s) ELSE n)
Drop(s, n) == SubSeq(s, n + 1, Len(s))

IsPrefix(p, s) == Len(p) <= Len(s) /\ SubSeq(s, 1, Len(p)) = p

\* the indices at which sub starts in s
Occurrences(s, sub) ==
    {i \in 1..(Len(s) - Len(sub) + 1) : SubSeq(s, i, i + Len(sub) - 1) = sub}

\* s contains sub as a contiguous run of bytes
Contains(s, sub) == Occurrences(s, sub) # {}

\* first index at which sub starts in s, 0 when it does not occur
IndexOf(s, sub) ==
    LET occ == Occurrences(s, sub) IN
    IF occ = {} THEN 0 ELSE CHOOSE i \in occ : \A j \in occ : i <= j

(***************************************************************************)
(* UTF-8 as core::str reads it.  A character is one ASCII byte or a lead   *)
(* byte C2..F4 with one, two or three continuation bytes 80..BF, the       *)
(* second byte narrowed for the leads E0, ED, F0 and F4.                   *)
(***************************************************************************)
Continuation == ByteRange(128, 191)
Lead2 == ByteRange(194, 223)
Lead3 == ByteRange(224, 239)
Lead4 == ByteRange(240, 244)

\* utf8_char_width: 0 for a byte that cannot start a character
utf8_char_width(b) ==
    IF b \notin NonAscii THEN 1
    ELSE IF b \in Lead2 THEN 2
    ELSE IF b \in Lead3 THEN 3
    ELSE IF b \in Lead4 THEN 4
    ELSE 0

\* the byte at i, NUL beyond the end
safe_get(bytes, i) == IF i <= Len(bytes) THEN bytes[i] ELSE "x00"

\* the second byte allowed after the lead of a three-byte character
Second3(lead, second) ==
    \/ lead = Byte(224) /\ second \in ByteRange(160, 191)
    \/ lead \in ByteRange(225, 236) /\ second \in Continuation
    \/ lead = Byte(237) /\ second \in ByteRange(128, 159)
    \/ lead \in ByteRange(238, 239) /\ second \in Continuation

\* the second byte allowed after the lead of a four-byte character
Second4(lead, second) ==
    \/ lead = Byte(240) /\ second \in ByteRange(144, 191)
    \/ lead \in ByteRange(241, 243) /\ second \in Continuation
    \/ lead = Byte(244) /\ second \in ByteRange(128, 143)

\* the character that starts at the non-ASCII byte i: valid with its
\* length, or invalid with the length of the maximal invalid sequence (the
\* lead and the continuation bytes accepted before the scan broke off)
next_char(bytes, i) ==
    LET w == utf8_char_width(bytes[i])
        c1 == safe_get(bytes, i + 1)
        c2 == safe_get(bytes, i + 2)
        c3 == safe_get(bytes, i + 3)
        ok(n) == [valid |-> TRUE, len |-> n]
        bad(n) == [valid |-> FALSE, len |-> n]
    IN CASE w = 2 -> IF c1 \in Continuation THEN ok(2) ELSE bad(1)
         [] w = 3 -> IF ~Second3(bytes[i], c1) THEN bad(1)
                     ELSE IF c2 \notin Continuation THEN bad(2)
                     ELSE ok(3)
         [] w = 4 -> IF ~Second4(bytes[i], c1) THEN bad(1)
                     ELSE IF c2 \notin Continuation THEN bad(2)
                     ELSE IF c3 \notin Continuation THEN bad(3)
                     ELSE ok(4)
         [] OTHER -> bad(1)

\* index of the first non-ASCII byte, 0 when there is none
FirstNonAscii(bytes) ==
    LET high == {i \in 1..Len(bytes) : bytes[i] \in NonAscii} IN
    IF high = {} THEN 0 ELSE CHOOSE i \in high : \A j \in high : i <= j

\* str::from_utf8(bytes).is_ok()
RECURSIVE from_utf8_ok(_)
from_utf8_ok(bytes) ==
    LET i == FirstNonAscii(bytes) IN
    IF i = 0 THEN TRUE
    ELSE LET c == next_char(bytes, i)
         IN c.valid /\ from_utf8_ok(Drop(bytes, i + c.len - 1))

(***************************************************************************)
(* String::from_utf8_lossy(&buffer[..read_bytes]): valid characters are    *)
(* kept and every maximal invalid sequence becomes one U+FFFD (EF BF BD).  *)
(***************************************************************************)
REPLACEMENT_CHARACTER == <<"xEF", "xBF", "xBD">>

RECURSIVE from_utf8_lossy(_)
from_utf8_lossy(bytes) ==
    LET i == FirstNonAscii(bytes) IN
    IF i = 0 THEN bytes
    ELSE LET c == next_char(bytes, i)
         IN SubSeq(bytes, 1, i - 1)
            \o (IF c.valid THEN SubSeq(bytes, i, i + c.len - 1)
                ELSE REPLACEMENT_CHARACTER)
            \o from_utf8_lossy(Drop(bytes, i + c.len - 1))

(***************************************************************************)
(* Option and the parser's result values.                                  *)
(***************************************************************************)
None == [some |-> FALSE, val |-> <<>>]
Some(v) == [some |-> TRUE, val |-> v]

\* httparse::Status::Partial, Status::Complete (pos: next unread byte) and
\* Err(httparse::Error)
Partial == [st |-> "Partial", pos |-> 0, err |-> ""]
Complete(p) == [st |-> "Complete", pos |-> p, err |-> ""]
Failed(e) == [st |-> "Err", pos |-> 0, err |-> e]

\* index of the first byte at or after i that is not in set; Len(b) + 1
\* when the buffer ends first
FirstNotIn(b, i, set) ==
    LET out == {j \in i..Len(b) : b[j] \notin set} IN
    IF out = {} THEN Len(b) + 1 ELSE CHOOSE j \in out : \A k \in out : j <= k

(***************************************************************************)
(* httparse::Request::parse, called at main.rs line 64.  One pass over the *)
(* buffer: empty lines, method token, request target, version, newline,    *)
(* header lines up to the blank line.  Running out of bytes anywhere is    *)
(* Ok(Status::Partial), a byte that cannot stand where it is is Err.       *)
(***************************************************************************)
RECURSIVE skip_empty_lines(_, _)
skip_empty_lines(b, i) ==
    IF i > Len(b) THEN Partial
    ELSE IF b[i] = "\r"
         THEN IF i + 1 > Len(b) THEN Partial
              ELSE IF b[i + 1] = "\n" THEN skip_empty_lines(b, i + 2)
              ELSE Failed("invalid new line")
    ELSE IF b[i] = "\n" THEN skip_empty_lines(b, i + 1)
    ELSE Complete(i)

\* a non-empty run of token bytes ended by a space
parse_token(b, i) ==
    LET j == FirstNotIn(b, i, TokenChars) IN
    IF j > Len(b) THEN Partial
    ELSE IF j = i THEN Failed("invalid token")
    ELSE IF b[j] = " " THEN Complete(j + 1)
    ELSE Failed("invalid token")

\* a non-empty run of request-target bytes ended by a space; the run
\* must be UTF-8, since the path is handed out as a &str
parse_uri(b, i) ==
    LET j == FirstNotIn(b, i, UriChars) IN
    IF j > Len(b) THEN Partial
    ELSE IF j = i THEN Failed("invalid token")
    ELSE IF b[j] # " " THEN Failed("invalid token")
    ELSE IF from_utf8_ok(SubSeq(b, i, j - 1)) THEN Complete(j + 1)
    ELSE Failed("invalid token")

HTTP_1_0 == <<"H","T","T","P","/","1",".","0">>
HTTP_1_1 == <<"H","T","T","P","/","1",".","1">>
HTTP_1_ == <<"H","T","T","P","/","1",".">>

\* eight bytes that are HTTP/1.0 or HTTP/1.1; with fewer than eight bytes
\* left, Partial as long as they agree with "HTTP/1."
parse_version(b, i) ==
    IF Len(b) - i + 1 >= 8
    THEN IF SubSeq(b, i, i + 7) \in {HTTP_1_0, HTTP_1_1}
         THEN Complete(i + 8) ELSE Failed("invalid HTTP version")
    ELSE IF IsPrefix(SubSeq(b, i, Len(b)), HTTP_1_)
         THEN Partial ELSE Failed("invalid HTTP version")

\* the newline! macro: CRLF or a bare LF
newline(b, i) ==
    IF i > Len(b) THEN Partial
    ELSE IF b[i] = "\r"
         THEN IF i + 1 > Len(b) THEN Partial
              ELSE IF b[i + 1] = "\n" THEN Complete(i + 2)
              ELSE Failed("invalid new line")
    ELSE IF b[i] = "\n" THEN Complete(i + 1)
    ELSE Failed("invalid new line")

\* the end of a header value at e: CRLF or a bare LF
ValueEnd(b, e) ==
    IF e > Len(b) THEN Partial
    ELSE IF b[e] = "\r"
         THEN IF e + 1 > Len(b) THEN Partial
              ELSE IF b[e + 1] = "\n" THEN Complete(e + 2)
              ELSE Failed("invalid header value")
    ELSE IF b[e] = "\n" THEN Complete(e + 1)
    ELSE Failed("invalid header value")

\* header lines until the blank line; count headers are already stored in
\* the caller's array of HeaderCap slots.  A slot is taken when a line
\* has been parsed to its newline: that is where a line too many fails.
RECURSIVE parse_headers(_, _, _)
parse_headers(b, i, count) ==
    IF i > Len(b) THEN Partial
    ELSE IF b[i] = "\r"
         THEN IF i + 1 > Len(b) THEN Partial
              ELSE IF b[i + 1] = "\n" THEN Complete(i + 2)
              ELSE Failed("invalid new line")
    ELSE IF b[i] = "\n" THEN Complete(i + 1)
    ELSE IF b[i] \notin TokenChars THEN Failed("invalid header name")
    ELSE LET colon == FirstNotIn(b, i, TokenChars) IN
         IF colon > Len(b) THEN Partial
         ELSE IF b[colon] # ":" THEN Failed("invalid header name")
         ELSE LET v == FirstNotIn(b, colon + 1, {" ", "\t"})
                  e == FirstNotIn(b, v, HeaderValueChars)
                  end == ValueEnd(b, e)
              IN IF end.st # "Complete" THEN end
                 ELSE IF count >= HeaderCap THEN Failed("too many headers")
                 ELSE parse_headers(b, end.pos, count + 1)

\* The Request after parse returned: the Result of the call and the fields
\* method and path, each set as soon as its piece has been parsed.
ParsedRequest(result, method, path) ==
    [st |-> result.st, err |-> result.err, method |-> method, path |-> path]

Request_new == ParsedRequest(Partial, None, None)

Request_parse(b) ==
    LET s == skip_empty_lines(b, 1) IN
    IF s.st # "Complete" THEN ParsedRequest(s, None, None) ELSE
    LET m == parse_token(b, s.pos) IN
    IF m.st # "Complete" THEN ParsedRequest(m, None, None) ELSE
    LET method == Some(SubSeq(b, s.pos, m.pos - 2))
        u == parse_uri(b, m.pos)
    IN
    IF u.st # "Complete" THEN ParsedRequest(u, method, None) ELSE
    LET path == Some(SubSeq(b, m.pos, u.pos - 2))
        v == parse_version(b, u.pos)
    IN
    IF v.st # "Complete" THEN ParsedRequest(v, method, path) ELSE
    LET n == newline(b, v.pos) IN
    IF n.st # "Complete" THEN ParsedRequest(n, method, path) ELSE
    ParsedRequest(parse_headers(b, n.pos, 0), method, path)

(***************************************************************************)
(* http::Method::from_bytes: the nine standard names give their enum       *)
(* variant, any other non-empty run of method bytes gives an extension     *)
(* method carrying the bytes, anything else is Err(InvalidMethod).         *)
(***************************************************************************)
StandardMethods ==
    {<<"G","E","T">>, <<"P","U","T">>, <<"P","O","S","T">>,
     <<"H","E","A","D">>, <<"P","A","T","C","H">>, <<"T","R","A","C","E">>,
     <<"D","E","L","E","T","E">>, <<"O","P","T","I","O","N","S">>,
     <<"C","O","N","N","E","C","T">>}

Standard(name) == [kind |-> "Standard", name |-> name]
Extension(name) == [kind |-> "Extension", name |-> name]

Method_GET == Standard(<<"G","E","T">>)
Method_POST == Standard(<<"P","O","S","T">>)

Method_from_bytes(src) ==
    IF Len(src) = 0 THEN [ok |-> FALSE, val |-> Extension(<<>>)]
    ELSE IF src \in StandardMethods THEN [ok |-> TRUE, val |-> Standard(src)]
    ELSE IF \A i \in 1..Len(src) : src[i] \in MethodChars
         THEN [ok |-> TRUE, val |-> Extension(src)]
    ELSE [ok |-> FALSE, val |-> Extension(<<>>)]

(***************************************************************************)
(* The response renderer and the handlers (main.rs lines 13-47).           *)
(***************************************************************************)
HTML_TEMPLATE ==
    <<"\n","<","!","D","O","C","T","Y","P","E"," ","h","t","m","l",">","\n",
      "<","h","t","m","l",">","\n","<","h","e","a","d",">","\n"," "," "," ",
      " ","<","t","i","t","l","e",">","{","t","i","t","l","e","}","<","/",
      "t","i","t","l","e",">","\n","<","/","h","e","a","d",">","\n","<","b",
      "o","d","y",">","\n"," "," "," "," ","<","h","1",">","{","c","o","n",
      "t","e","n","t","}","<","/","h","1",">","\n","<","/","b","o","d","y",
      ">","\n","<","/","h","t","m","l",">","\n">>

TitlePlaceholder == <<"{","t","i","t","l","e","}">>
ContentPlaceholder == <<"{","c","o","n","t","e","n","t","}">>
TextHtml == <<"t","e","x","t","/","h","t","m","l">>

\* str::replace: every non-overlapping occurrence of from, left to right
RECURSIVE replace(_, _, _)
replace(s, from, to) ==
    LET i == IndexOf(s, from) IN
    IF i = 0 THEN s
    ELSE SubSeq(s, 1, i - 1) \o to
         \o replace(Drop(s, i + Len(from) - 1), from, to)

create_response(title, content, status_code) ==
    [body |-> replace(replace(HTML_TEMPLATE, TitlePlaceholder, title),
                      ContentPlaceholder, content),
     content_type |-> TextHtml,
     status_code |-> status_code]

HelloTitle == <<"H","e","l","l","o"," ","P","a","g","e">>
HelloContent ==
    <<"H","e","l","l","o",","," ","R","u","s","t"," ","H","T","T","P"," ",
      "S","e","r","v","e","r","!">>
GoodbyeTitle == <<"G","o","o","d","b","y","e"," ","P","a","g","e">>
GoodbyeContent ==
    <<"G","o","o","d","b","y","e",","," ","R","u","s","t"," ","H","T","T",
      "P"," ","S","e","r","v","e","r","!">>
SubmitTitle == <<"S","u","b","m","i","s","s","i","o","n"," ","P","a","g","e">>
SubmitContent ==
    <<"D","a","t","a"," ","s","u","b","m","i","t","t","e","d"," ","s","u",
      "c","c","e","s","s","f","u","l","l","y","!">>
NotFoundTitle == <<"4","0","4"," ","-"," ","N","o","t"," ","F","o","u","n","d">>
NotFoundContent == <<"N","o","t"," ","F","o","u","n","d">>

handle_hello(request) == create_response(HelloTitle, HelloContent, 200)
handle_goodbye(request) == create_response(GoodbyeTitle, GoodbyeContent, 200)
handle_submit(request) == create_response(SubmitTitle, SubmitContent, 200)

\* handle_not_found with a bug: the status of the other handlers
handle_not_found_Ok(request) == create_response(NotFoundTitle, NotFoundContent, 200)

handle_not_found(request) == create_response(NotFoundTitle, NotFoundContent, 404)

\* a HandlerFn value is the name of the function it points to
CallHandler(handler, request) ==
    CASE handler = "handle_hello" -> handle_hello(request)
      [] handler = "handle_goodbye" -> handle_goodbye(request)
      [] handler = "handle_submit" -> handle_submit(request)
      [] handler = "handle_not_found" -> handle_not_found(request)

(***************************************************************************)
(* The route table: a HashMap from (path, method) to a handler.            *)
(***************************************************************************)
PathHello == <<"/","h","e","l","l","o">>
PathBye == <<"/","b","y","e">>
PathSubmit == <<"/","s","u","b","m","i","t">>

EmptyRoutes == [k \in {} |-> "handle_not_found"]

\* HashMap::insert: the key now maps to handler, every other key is kept
HashMap_insert(map, key, handler) ==
    [k \in DOMAIN map \cup {key} |-> IF k = key THEN handler ELSE map[k]]

\* find_handler with a bug: the method of the key is not compared
find_handler_PathOnly(path, method, map) ==
    IF \E k \in DOMAIN map : k[1] = path
    THEN Some(map[CHOOSE k \in DOMAIN map : k[1] = path])
    ELSE [some |-> FALSE, val |-> ""]

\* routes.get(&(path, method)).copied()
find_handler(path, method, map) ==
    IF <<path, method>> \in DOMAIN map
    THEN Some(map[<<path, method>>]) ELSE [some |-> FALSE, val |-> ""]

(***************************************************************************)
(* format!("HTTP/1.1 {}\r\nContent-Length: {}\r\nContent-Type: {}\r\n\r\n  *)
(* {}", status_code, response_content.len(), content_type, content)        *)
(***************************************************************************)
DigitChar(d) == <<"0","1","2","3","4","5","6","7","8","9">>[d + 1]

\* Display of an unsigned integer
RECURSIVE ToDecimal(_)
ToDecimal(n) ==
    IF n < 10 THEN <<DigitChar(n)>>
    ELSE ToDecimal(n \div 10) \o <<DigitChar(n % 10)>>

StatusLinePrefix == <<"H","T","T","P","/","1",".","1"," ">>
ContentLengthName ==
    <<"C","o","n","t","e","n","t","-","L","e","n","g","t","h",":"," ">>
ContentTypeName == <<"C","o","n","t","e","n","t","-","T","y","p","e",":"," ">>

\* FormatResponse with a bug: the length of the template, not of the body
FormatResponse_TemplateLen(r) ==
    StatusLinePrefix \o ToDecimal(r.status_code) \o CRLF
    \o ContentLengthName \o ToDecimal(Len(HTML_TEMPLATE)) \o CRLF
    \o ContentTypeName \o r.content_type \o CRLF
    \o CRLF \o r.body

FormatResponse(r) ==
    StatusLinePrefix \o ToDecimal(r.status_code) \o CRLF
    \o ContentLengthName \o ToDecimal(Len(r.body)) \o CRLF
    \o ContentTypeName \o r.content_type \o CRLF
    \o CRLF \o r.body

(***************************************************************************)
(* What a peer may send on a connection.                                   *)
(***************************************************************************)
HostHeader == <<"H","o","s","t",":"," ","x">> \o CRLF
ZeroLengthHeader == ContentLengthName \o <<"0">> \o CRLF

\* a complete request head: request line, header lines, blank line
Req(method, path, headers) ==
    method \o SP \o path \o SP \o HTTP_1_1 \o CRLF \o headers \o CRLF

M_GET == <<"G","E","T">>
M_POST == <<"P","O","S","T">>
M_BREW == <<"B","R","E","W">>

GetHello == Req(M_GET, PathHello, HostHeader)
GetBye == Req(M_GET, PathBye, HostHeader)
PostSubmit == Req(M_POST, PathSubmit, HostHeader \o ZeroLengthHeader)
GetMissing == Req(M_GET, <<"/","m","i","s","s","i","n","g">>, <<>>)
PostHello == Req(M_POST, PathHello, HostHeader)
GetHelloCapital == Req(M_GET, <<"/","H","e","l","l","o">>, HostHeader)
GetHelloSlash == Req(M_GET, <<"/","h","e","l","l","o","/">>, HostHeader)
BrewHello == Req(M_BREW, PathHello, HostHeader)

\* requests cut short by the read: inside the method, inside the path,
\* before the blank line that ends the headers, and empty lines only
CutInMethod == Take(GetHello, 2)
CutInPath == Take(GetHello, 7)
CutInHeaders == Take(GetHello, Len(GetHello) - 2)
OnlyNewline == CRLF

\* bytes that are not UTF-8 in a header value and in the target, a target
\* with a byte outside RFC 3986, and sixteen header lines followed by the
\* beginning of one more
Utf8InHeader == Req(M_GET, PathHello, <<"H","o","s","t",":"," ","xFF">> \o CRLF)
Utf8InPath == Req(M_GET, <<"/","xFF">>, HostHeader)
BarInPath == Req(M_GET, <<"/","a","|","b">>, <<>>)
CutInHeader17 ==
    M_GET \o SP \o PathHello \o SP \o HTTP_1_1 \o CRLF
    \o Repeat(<<"a",":","\n">>, HeaderCap) \o <<"b",":"," ","x">>

\* malformed heads
BadMethod == Req(<<"G","(","T">>, PathHello, HostHeader)
BadUtf8 == <<"xFF">> \o GetHello
BadVersion ==
    M_GET \o SP \o PathHello \o SP \o <<"H","T","T","P","/","2",".","0">>
    \o CRLF \o CRLF
TooManyHeaders == Req(M_GET, PathHello, Repeat(<<"a",":","\n">>, HeaderCap + 1))

\* the inputs of the concurrent specification
CorePayloads == {GetHello, GetMissing, CutInMethod, CutInHeaders, BadMethod}

\* the inputs of the single-connection specification
Payloads ==
    {GetHello, GetBye, PostSubmit, GetMissing, PostHello, GetHelloCapital,
     GetHelloSlash, BrewHello, CutInMethod, CutInPath, CutInHeaders,
     OnlyNewline, BadMethod, BadUtf8, BadVersion, TooManyHeaders,
     Utf8InHeader, Utf8InPath, BarInPath, CutInHeader17}

\* the numbers of bytes after which a write fails in the concurrent
\* specification: at once, and one byte short of the 404 response
CoreCuts == {0, 181}

\* ... and in the single-connection specification: also after one byte,
\* in the middle of the body, and one byte short of the /hello response
Cuts == {0, 1, 100, 181, 191}

(***************************************************************************)
(* State.                                                                  *)
(***************************************************************************)
Conns == 1..MaxConns

VARIABLES
    mainPc,     \* where main is: "bind", "insert_hello", "insert_bye",
                \* "insert_submit", "accept" (the loop), "panicked" (main
                \* is unwinding), "exited" (the process has ended)
    routes,     \* the route table
    accepted,   \* number of streams accepted; connection c is the c-th
    mainLog,    \* log entries written by the accept loop
    pc,         \* per connection: "unborn", "read", "parse", "dispatch",
                \* "write", "flush", "done" (returned), "panicked",
                \* "killed" (ended by the exit of the process)
    readResult, \* per connection: "" before the read call returns, then
                \* "Ok" or "Err"
    buffer,     \* per connection: &buffer[..read_bytes]
    parsed,     \* per connection: parsed_request after the parse call
    response,   \* per connection: the formatted response
    wire,       \* per connection: the bytes the socket has taken
    trace,      \* per connection: the calls made so far, in order
    log,        \* per connection: log entries written by its thread
    fault       \* per connection: the panic message, "" when none

vars == <<mainPc, routes, accepted, mainLog, pc, readResult, buffer, parsed,
          response, wire, trace, log, fault>>

mainVars == <<mainPc, routes, accepted, mainLog>>

LogEntry(msg, detail) == [msg |-> msg, detail |-> detail]

Init ==
    /\ mainPc = "bind"
    /\ routes = EmptyRoutes
    /\ accepted = 0
    /\ mainLog = <<>>
    /\ pc = [c \in Conns |-> "unborn"]
    /\ readResult = [c \in Conns |-> ""]
    /\ buffer = [c \in Conns |-> <<>>]
    /\ parsed = [c \in Conns |-> Request_new]
    /\ response = [c \in Conns |-> <<>>]
    /\ wire = [c \in Conns |-> <<>>]
    /\ trace = [c \in Conns |-> <<>>]
    /\ log = [c \in Conns |-> <<>>]
    /\ fault = [c \in Conns |-> ""]

unitVars == <<pc, readResult, buffer, parsed, response, wire, trace, log, fault>>

(***************************************************************************)
(* main (lines 103-133).                                                   *)
(***************************************************************************)
\* TcpListener::bind(..)? succeeded
BindOk ==
    /\ mainPc = "bind"
    /\ mainPc' = "insert_hello"
    /\ UNCHANGED <<routes, accepted, mainLog, unitVars>>

\* TcpListener::bind(..)? failed: main returns the error
BindErr ==
    /\ mainPc = "bind"
    /\ mainPc' = "exited"
    /\ UNCHANGED <<routes, accepted, mainLog, unitVars>>

InsertHello ==
    /\ mainPc = "insert_hello"
    /\ routes' = HashMap_insert(routes, <<PathHello, Method_GET>>, "handle_hello")
    /\ mainPc' = "insert_bye"
    /\ UNCHANGED <<accepted, mainLog, unitVars>>

\* InsertBye with a bug: the handler of the line above is registered
InsertBye_WrongHandler ==
    /\ mainPc = "insert_bye"
    /\ routes' = HashMap_insert(routes, <<PathBye, Method_GET>>, "handle_hello")
    /\ mainPc' = "insert_submit"
    /\ UNCHANGED <<accepted, mainLog, unitVars>>

InsertBye ==
    /\ mainPc = "insert_bye"
    /\ routes' = HashMap_insert(routes, <<PathBye, Method_GET>>, "handle_goodbye")
    /\ mainPc' = "insert_submit"
    /\ UNCHANGED <<accepted, mainLog, unitVars>>

InsertSubmit ==
    /\ mainPc = "insert_submit"
    /\ routes' = HashMap_insert(routes, <<PathSubmit, Method_POST>>, "handle_submit")
    /\ mainPc' = "accept"
    /\ UNCHANGED <<accepted, mainLog, unitVars>>

\* listener.incoming() gave Ok(stream): spawn a thread for it
AcceptOk(limit) ==
    /\ mainPc = "accept"
    /\ accepted < limit
    /\ accepted' = accepted + 1
    /\ pc' = [pc EXCEPT ![accepted + 1] = "read"]
    /\ UNCHANGED <<mainPc, routes, mainLog, readResult, buffer, parsed,
                   response, wire, trace, log, fault>>

\* AcceptErr with a bug: the error is returned from main with `?`
AcceptErr_Exit ==
    /\ mainPc = "accept"
    /\ Len(mainLog) < MaxAcceptErrors
    /\ mainLog' = Append(mainLog, LogEntry("Error accepting connection", "io"))
    /\ mainPc' = "exited"
    /\ UNCHANGED <<routes, accepted, unitVars>>

\* listener.incoming() gave Err(e): log it and go round the loop
AcceptErr ==
    /\ mainPc = "accept"
    /\ Len(mainLog) < MaxAcceptErrors
    /\ mainLog' = Append(mainLog, LogEntry("Error accepting connection", "io"))
    /\ UNCHANGED <<mainPc, routes, accepted, unitVars>>

\* listener.incoming() gave Ok(stream) and thread::spawn could not create
\* the thread: spawn panics, and the panic is in main.  No unit is started
\* for the stream; the panic message is not written through the logger.
SpawnPanic(limit) ==
    /\ mainPc = "accept"
    /\ accepted < limit
    /\ accepted' = accepted + 1
    /\ mainPc' = "panicked"
    /\ UNCHANGED <<routes, mainLog, unitVars>>

\* the positions of a thread that has been spawned and has not ended
RunningPcs == {"read", "parse", "dispatch", "write", "flush"}

\* main has unwound: the process exits (code 101) and every connection
\* thread still running ends with it, wherever it stands
ProcessExit ==
    /\ mainPc = "panicked"
    /\ mainPc' = "exited"
    /\ pc' = [c \in Conns |-> IF pc[c] \in RunningPcs THEN "killed" ELSE pc[c]]
    /\ UNCHANGED <<routes, accepted, mainLog, readResult, buffer, parsed,
                   response, wire, trace, log, fault>>

(***************************************************************************)
(* handle_client (lines 49-93), run by the thread spawned for connection c *)
(* together with the closure at the spawn boundary (lines 120-124).        *)
(***************************************************************************)
Step(c, name) == trace' = [trace EXCEPT ![c] = Append(@, name)]

\* stream.read(&mut buffer)? returned n > 0: the first n bytes the peer
\* sent, at most the size of the buffer
ReadData(c, inputs) ==
    /\ pc[c] = "read"
    /\ \E data \in inputs :
           /\ Len(data) > 0
           /\ buffer' = [buffer EXCEPT ![c] = Take(data, BufSize)]
    /\ readResult' = [readResult EXCEPT ![c] = "Ok"]
    /\ pc' = [pc EXCEPT ![c] = "parse"]
    /\ Step(c, "read")
    /\ UNCHANGED <<mainVars, parsed, response, wire, log, fault>>

\* ReadZero with a bug: the empty read is returned as an error
ReadZero_AsError(c) ==
    /\ pc[c] = "read"
    /\ readResult' = [readResult EXCEPT ![c] = "Ok"]
    /\ pc' = [pc EXCEPT ![c] = "done"]
    /\ log' = [log EXCEPT ![c] = Append(@, LogEntry("Error handling client", "eof"))]
    /\ Step(c, "read")
    /\ UNCHANGED <<mainVars, buffer, parsed, response, wire, fault>>

\* stream.read returned Ok(0): return Ok(())
ReadZero(c) ==
    /\ pc[c] = "read"
    /\ readResult' = [readResult EXCEPT ![c] = "Ok"]
    /\ pc' = [pc EXCEPT ![c] = "done"]
    /\ Step(c, "read")
    /\ UNCHANGED <<mainVars, buffer, parsed, response, wire, log, fault>>

\* ReadErr with a bug: the closure drops the result without logging it
ReadErr_Silent(c) ==
    /\ pc[c] = "read"
    /\ readResult' = [readResult EXCEPT ![c] = "Err"]
    /\ pc' = [pc EXCEPT ![c] = "done"]
    /\ Step(c, "read")
    /\ UNCHANGED <<mainVars, buffer, parsed, response, wire, log, fault>>

\* stream.read returned Err: `?` returns it and the closure logs it
ReadErr(c) ==
    /\ pc[c] = "read"
    /\ readResult' = [readResult EXCEPT ![c] = "Err"]
    /\ pc' = [pc EXCEPT ![c] = "done"]
    /\ log' = [log EXCEPT ![c] = Append(@, LogEntry("Error handling client", "io"))]
    /\ Step(c, "read")
    /\ UNCHANGED <<mainVars, buffer, parsed, response, wire, fault>>

\* Parse with a bug: on Status::Partial the unit goes back to read more
Parse_ReadMore(c) ==
    /\ pc[c] = "parse"
    /\ LET result == Request_parse(from_utf8_lossy(buffer[c])) IN
          /\ parsed' = [parsed EXCEPT ![c] = result]
          /\ log' = IF result.st = "Err"
                    THEN [log EXCEPT ![c] =
                             Append(@, LogEntry("Failed to parse request", result.err))]
                    ELSE log
          /\ pc' = [pc EXCEPT ![c] =
                       CASE result.st = "Err" -> "done"
                         [] result.st = "Partial" -> "read"
                         [] OTHER -> "dispatch"]
    /\ Step(c, "parse")
    /\ UNCHANGED <<mainVars, readResult, buffer, response, wire, fault>>

\* Parse with a bug: the return after the log call is missing
Parse_NoReturn(c) ==
    /\ pc[c] = "parse"
    /\ LET result == Request_parse(from_utf8_lossy(buffer[c])) IN
          /\ parsed' = [parsed EXCEPT ![c] = result]
          /\ log' = IF result.st = "Err"
                    THEN [log EXCEPT ![c] =
                             Append(@, LogEntry("Failed to parse request", result.err))]
                    ELSE log
          /\ pc' = [pc EXCEPT ![c] = "dispatch"]
    /\ Step(c, "parse")
    /\ UNCHANGED <<mainVars, readResult, buffer, response, wire, fault>>

\* lines 60-67: decode, parse; Err(err) is logged and the function returns,
\* every Ok (Status::Complete and Status::Partial alike) goes on
Parse(c) ==
    /\ pc[c] = "parse"
    /\ LET request == from_utf8_lossy(buffer[c])
           result == Request_parse(request)
       IN /\ parsed' = [parsed EXCEPT ![c] = result]
          /\ IF result.st = "Err"
             THEN /\ log' = [log EXCEPT ![c] =
                        Append(@, LogEntry("Failed to parse request", result.err))]
                  /\ pc' = [pc EXCEPT ![c] = "done"]
             ELSE /\ log' = log
                  /\ pc' = [pc EXCEPT ![c] = "dispatch"]
    /\ Step(c, "parse")
    /\ UNCHANGED <<mainVars, readResult, buffer, response, wire, fault>>

\* lines 69-82: the method and the path are unwrapped, the method is
\* converted, the handler is looked up and called, the response formatted.
\* unwrap on None and expect on Err panic.
Dispatched(request, pr, map) ==
    IF ~pr.method.some
    THEN [panic |-> "called Option::unwrap() on a None value: method",
          response |-> <<>>]
    ELSE LET m == Method_from_bytes(pr.method.val) IN
         IF ~m.ok
         THEN [panic |-> "Invalid HTTP method: InvalidMethod",
               response |-> <<>>]
         ELSE IF ~pr.path.some
         THEN [panic |-> "called Option::unwrap() on a None value: path",
               response |-> <<>>]
         ELSE LET handler == find_handler(pr.path.val, m.val, map)
                  result == IF handler.some
                            THEN CallHandler(handler.val, request)
                            ELSE handle_not_found(request)
              IN [panic |-> "", response |-> FormatResponse(result)]

\* Dispatch with a bug: a lookup that misses registers the not-found
\* handler under the missing key
Dispatch_Registers(c) ==
    /\ pc[c] = "dispatch"
    /\ LET d == Dispatched(from_utf8_lossy(buffer[c]), parsed[c], routes) IN
          IF d.panic # ""
          THEN /\ fault' = [fault EXCEPT ![c] = d.panic]
               /\ pc' = [pc EXCEPT ![c] = "panicked"]
               /\ response' = response
               /\ routes' = routes
          ELSE /\ response' = [response EXCEPT ![c] = d.response]
               /\ pc' = [pc EXCEPT ![c] = "write"]
               /\ fault' = fault
               /\ LET key == <<parsed[c].path.val,
                               Method_from_bytes(parsed[c].method.val).val>>
                  IN routes' = IF key \in DOMAIN routes THEN routes
                               ELSE HashMap_insert(routes, key, "handle_not_found")
    /\ Step(c, "dispatch")
    /\ UNCHANGED <<mainPc, accepted, mainLog, readResult, buffer, parsed, wire, log>>

\* Dispatch with a bug: the parsed request is kept in one place shared by
\* all threads, so a unit dispatches on the newest connection's request
Dispatch_SharedRequest(c) ==
    /\ pc[c] = "dispatch"
    /\ LET d == Dispatched(from_utf8_lossy(buffer[accepted]), parsed[accepted],
                           routes)
       IN IF d.panic # ""
          THEN /\ fault' = [fault EXCEPT ![c] = d.panic]
               /\ pc' = [pc EXCEPT ![c] = "panicked"]
               /\ response' = response
          ELSE /\ response' = [response EXCEPT ![c] = d.response]
               /\ pc' = [pc EXCEPT ![c] = "write"]
               /\ fault' = fault
    /\ Step(c, "dispatch")
    /\ UNCHANGED <<mainVars, readResult, buffer, parsed, wire, log>>

\* A panic unwinds the connection's thread only: the stream is dropped and
\* the thread ends; the panic message is not written through the logger.
Dispatch(c) ==
    /\ pc[c] = "dispatch"
    /\ LET d == Dispatched(from_utf8_lossy(buffer[c]), parsed[c], routes) IN
          IF d.panic # ""
          THEN /\ fault' = [fault EXCEPT ![c] = d.panic]
               /\ pc' = [pc EXCEPT ![c] = "panicked"]
               /\ response' = response
          ELSE /\ response' = [response EXCEPT ![c] = d.response]
               /\ pc' = [pc EXCEPT ![c] = "write"]
               /\ fault' = fault
    /\ Step(c, "dispatch")
    /\ UNCHANGED <<mainVars, readResult, buffer, parsed, wire, log>>

\* stream.write_all(response.as_bytes()) returned Ok: all bytes are out
WriteOk(c) ==
    /\ pc[c] = "write"
    /\ wire' = [wire EXCEPT ![c] = @ \o response[c]]
    /\ pc' = [pc EXCEPT ![c] = "flush"]
    /\ Step(c, "write_all")
    /\ UNCHANGED <<mainVars, readResult, buffer, parsed, response, log, fault>>

\* the lengths a failed write_all may have put out before the error: any
\* proper prefix of the n bytes
FailedWriteLengths(n) == 0..(n - 1)

\* WriteErr with a bug: the result of write_all is unwrapped
WriteErr_Unwrap(c, cuts) ==
    /\ pc[c] = "write"
    /\ \E k \in FailedWriteLengths(Len(response[c])) \cap cuts :
           wire' = [wire EXCEPT ![c] = @ \o Take(response[c], k)]
    /\ fault' = [fault EXCEPT ![c] = "called Result::unwrap() on an Err value"]
    /\ pc' = [pc EXCEPT ![c] = "panicked"]
    /\ Step(c, "write_all")
    /\ UNCHANGED <<mainVars, readResult, buffer, parsed, response, log>>

\* WriteErr with a bug: the error is returned with `?` and logged by the
\* closure, and the flush is skipped
WriteErr_Propagate(c, cuts) ==
    /\ pc[c] = "write"
    /\ \E k \in FailedWriteLengths(Len(response[c])) \cap cuts :
           wire' = [wire EXCEPT ![c] = @ \o Take(response[c], k)]
    /\ log' = [log EXCEPT ![c] = Append(@, LogEntry("Error handling client", "io"))]
    /\ pc' = [pc EXCEPT ![c] = "done"]
    /\ Step(c, "write_all")
    /\ UNCHANGED <<mainVars, readResult, buffer, parsed, response, fault>>

\* WriteErr with a bug: a failed write_all is followed by a second attempt
WriteErr_Retry(c, cuts) ==
    /\ pc[c] = "write"
    /\ \E k \in FailedWriteLengths(Len(response[c])) \cap cuts :
           wire' = [wire EXCEPT ![c] = @ \o Take(response[c], k) \o response[c]]
    /\ log' = [log EXCEPT ![c] = Append(@, LogEntry("Failed to write response", "io"))]
    /\ pc' = [pc EXCEPT ![c] = "flush"]
    /\ trace' = [trace EXCEPT ![c] = @ \o <<"write_all", "write_all">>]
    /\ UNCHANGED <<mainVars, readResult, buffer, parsed, response, fault>>

\* stream.write_all returned Err after the socket took k bytes, k one of
\* the points of failure (cuts) the run explores: logged, and the function
\* goes on
WriteErr(c, cuts) ==
    /\ pc[c] = "write"
    /\ \E k \in FailedWriteLengths(Len(response[c])) \cap cuts :
           wire' = [wire EXCEPT ![c] = @ \o Take(response[c], k)]
    /\ log' = [log EXCEPT ![c] = Append(@, LogEntry("Failed to write response", "io"))]
    /\ pc' = [pc EXCEPT ![c] = "flush"]
    /\ Step(c, "write_all")
    /\ UNCHANGED <<mainVars, readResult, buffer, parsed, response, fault>>

\* stream.flush() returned Ok; the function returns Ok(())
FlushOk(c) ==
    /\ pc[c] = "flush"
    /\ pc' = [pc EXCEPT ![c] = "done"]
    /\ Step(c, "flush")
    /\ UNCHANGED <<mainVars, readResult, buffer, parsed, response, wire, log, fault>>

\* stream.flush() returned Err: logged; the function returns Ok(())
FlushErr(c) ==
    /\ pc[c] = "flush"
    /\ log' = [log EXCEPT ![c] = Append(@, LogEntry("Failed to flush stream", "io"))]
    /\ pc' = [pc EXCEPT ![c] = "done"]
    /\ Step(c, "flush")
    /\ UNCHANGED <<mainVars, readResult, buffer, parsed, response, wire, fault>>

\* one step of connection c's thread
UnitStep(c, inputs, cuts) ==
    \/ ReadData(c, inputs)
    \/ ReadZero(c)
    \/ ReadErr(c)
    \/ Parse(c)
    \/ Dispatch(c)
    \/ WriteOk(c)
    \/ WriteErr(c, cuts)
    \/ FlushOk(c)
    \/ FlushErr(c)

MainStep(limit) ==
    \/ BindOk
    \/ BindErr
    \/ InsertHello
    \/ InsertBye
    \/ InsertSubmit
    \/ AcceptOk(limit)
    \/ AcceptErr
    \/ SpawnPanic(limit)
    \/ ProcessExit

(***************************************************************************)
(* The server with MaxConns connections running concurrently.              *)
(***************************************************************************)
Next ==
    \/ MainStep(MaxConns)
    \/ \E c \in Conns : UnitStep(c, CorePayloads, CoreCuts)

Spec == Init /\ [][Next]_vars

(***************************************************************************)
(* The server with MaxSingle connections and every input of Payloads.      *)
(***************************************************************************)
MaxSingle == 1

NextSingle ==
    \/ MainStep(MaxSingle)
    \/ \E c \in Conns : UnitStep(c, Payloads, Cuts)

SingleSpec == Init /\ [][NextSingle]_vars

(***************************************************************************)
(* Reading a response the way a client does.                               *)
(***************************************************************************)
Count(tr, name) == Cardinality({i \in 1..Len(tr) : tr[i] = name})
Did(c, name) == \E i \in 1..Len(trace[c]) : trace[c][i] = name
Ended(c) == pc[c] \in {"done", "panicked"}
Logged(c, msg) == \E i \in 1..Len(log[c]) : log[c][i].msg = msg

\* the bytes after the first blank line
BodyOf(resp) == Drop(resp, IndexOf(resp, CRLF \o CRLF) + 3)

\* the bytes between "HTTP/1.1 " and the end of the status line
StatusOf(resp) == SubSeq(resp, Len(StatusLinePrefix) + 1, IndexOf(resp, CRLF) - 1)

\* the value of the header line that starts with name, up to its CRLF
HeaderOf(resp, name) ==
    LET start == IndexOf(resp, CRLF \o name) + Len(CRLF \o name)
        rest == Drop(resp, start - 1)
    IN SubSeq(rest, 1, IndexOf(rest, CRLF) - 1)

DigitValue(ch) == CHOOSE d \in 0..9 : DigitChar(d) = ch

RECURSIVE ParseDecimal(_)
ParseDecimal(digits) ==
    IF digits = <<>> THEN 0
    ELSE 10 * ParseDecimal(SubSeq(digits, 1, Len(digits) - 1))
         + DigitValue(digits[Len(digits)])

Code200 == <<"2","0","0">>
Code404 == <<"4","0","4">>

\* the state of connection c's unit
UnitState(c) ==
    <<pc[c], readResult[c], buffer[c], parsed[c], response[c], wire[c],
      trace[c], log[c], fault[c]>>

(***************************************************************************)
(* C1.  In every run of a connection unit the response is handed to the    *)
(* socket at most once: write_all is called at most once, the bytes on the *)
(* wire are never more than that one response, and a unit that makes no    *)
(* write has put nothing on the wire, however it ends.                     *)
(***************************************************************************)
C1_AtMostOneResponse ==
    \A c \in Conns :
        /\ Count(trace[c], "write_all") <= 1
        /\ IsPrefix(wire[c], response[c])
        /\ ~Did(c, "write_all") => wire[c] = <<>>
        /\ Ended(c) => (wire[c] = <<>> \/ Did(c, "write_all"))

\* one unit has returned with its whole response on the wire while another
\* has ended after a failed parse with nothing on the wire
C1_Witness ==
    \E c, d \in Conns :
        /\ pc[c] = "done" /\ response[c] # <<>> /\ wire[c] = response[c]
        /\ pc[d] = "done" /\ parsed[d].st = "Err" /\ wire[d] = <<>>

\* unit c failed after its read: its parse did not complete or it faulted
FailedAtSteps2To5(c) ==
    \/ Did(c, "parse") /\ parsed[c].st # "Complete"
    \/ pc[c] = "panicked"

(***************************************************************************)
(* C2.  Any error at steps 2-5 of a unit is caught, logged and ends only   *)
(* that unit: a unit that failed (its parse did not complete, its write or *)
(* flush returned an error, or it faulted) has a log entry for the failure *)
(* and has not faulted, and a step of one unit never changes the accept    *)
(* loop or another unit.                                                   *)
(***************************************************************************)
C2_ErrorsCaughtAndLogged ==
    \A c \in Conns :
        (Ended(c) /\ FailedAtSteps2To5(c)) => (log[c] # <<>> /\ fault[c] = "")

\* Containment: a step of unit c, a failing one included, leaves main and
\* every other unit as they were; the accept loop is left only by main's
\* own step, when a thread cannot be spawned.
C2_FailureIsContained ==
    [][/\ \A c \in Conns :
              trace'[c] # trace[c]
                  => /\ mainVars' = mainVars
                     /\ \A d \in Conns \ {c} : UnitState(d)' = UnitState(d)
       /\ (mainPc = "accept" /\ mainPc' # "accept")
              => /\ mainPc' = "panicked" /\ accepted' = accepted + 1
                 /\ UNCHANGED unitVars]_vars

C2_Witness ==
    \E c, d \in Conns :
        /\ c # d
        /\ pc[c] = "panicked"
        /\ pc[d] = "done" /\ wire[d] = response[d] /\ response[d] # <<>>
        /\ mainPc = "accept"

(***************************************************************************)
(* C3.  A request that is not wholly in the single read (the parser saw    *)
(* only part of the request line or of the headers) is dropped: nothing is *)
(* written to the socket and the unit does not fault.                      *)
(***************************************************************************)
C3_TruncatedIsDropped ==
    \A c \in Conns :
        (Did(c, "parse") /\ parsed[c].st = "Partial")
            => /\ pc[c] # "panicked"
               /\ ~Did(c, "write_all")
               /\ wire[c] = <<>>

(***************************************************************************)
(* C4.  A request the parser rejects (Err on the request line or headers)  *)
(* ends its unit with one log entry, nothing written and no fault.  The    *)
(* step that rejects it changes nothing of main or of another unit, so the *)
(* process is not brought down by it, and the accept loop, as long as it   *)
(* runs and connections remain to be made, can accept the next one.        *)
(***************************************************************************)
C4_MalformedIsDropped ==
    /\ [](\A c \in Conns :
            parsed[c].st = "Err"
                => /\ pc[c] = "done"
                   /\ wire[c] = <<>>
                   /\ ~Did(c, "write_all")
                   /\ fault[c] = ""
                   /\ log[c] = <<LogEntry("Failed to parse request", parsed[c].err)>>)
    /\ []((mainPc = "accept" /\ accepted < MaxConns) => ENABLED AcceptOk(MaxConns))
    /\ [][\A c \in Conns :
            (parsed[c].st # "Err" /\ parsed'[c].st = "Err")
                => /\ mainVars' = mainVars
                   /\ \A d \in Conns \ {c} : UnitState(d)' = UnitState(d)]_vars

\* the first connection was malformed and dropped, and the connection
\* accepted after it has been served in full
C4_Witness ==
    /\ MaxConns >= 2
    /\ mainPc = "accept"
    /\ parsed[1].st = "Err" /\ pc[1] = "done" /\ wire[1] = <<>>
    /\ pc[2] = "done" /\ StatusOf(response[2]) = Code200
    /\ wire[2] = response[2]

(***************************************************************************)
(* C5.  Whatever method token reaches the method conversion, the unit ends *)
(* by dropping the connection or by answering, never by a panic.           *)
(***************************************************************************)
C5_NoPanicAtConversion ==
    \A c \in Conns : Did(c, "dispatch") => pc[c] # "panicked"

(***************************************************************************)
(* What the route surface is meant to be (spec section 6), on the raw      *)
(* bytes of the request line.                                              *)
(***************************************************************************)
Registered ==
    {[method |-> M_GET, path |-> PathHello,
      title |-> HelloTitle, content |-> HelloContent],
     [method |-> M_GET, path |-> PathBye,
      title |-> GoodbyeTitle, content |-> GoodbyeContent],
     [method |-> M_POST, path |-> PathSubmit,
      title |-> SubmitTitle, content |-> SubmitContent]}

\* the request line of unit c names route r, byte for byte
Names(c, r) ==
    /\ parsed[c].method = Some(r.method)
    /\ parsed[c].path = Some(r.path)

TitleOpen == <<"<","t","i","t","l","e",">">>
TitleClose == <<"<","/","t","i","t","l","e",">">>
H1Open == <<"<","h","1",">">>
H1Close == <<"<","/","h","1",">">>

\* body is the template with title and content in the places of the two
\* placeholders
Embeds(body, title, content) ==
    /\ Contains(body, TitleOpen \o title \o TitleClose)
    /\ Contains(body, H1Open \o content \o H1Close)
    /\ Len(body) = Len(HTML_TEMPLATE) - Len(TitlePlaceholder)
                   - Len(ContentPlaceholder) + Len(title) + Len(content)
    /\ IsPrefix(SubSeq(HTML_TEMPLATE, 1, IndexOf(HTML_TEMPLATE, TitlePlaceholder) - 1),
                body)

WriteSucceeded(c) ==
    Did(c, "write_all") /\ ~Logged(c, "Failed to write response")

(***************************************************************************)
(* C6.  A fully parsed request whose path and method are those of a        *)
(* registered pair (GET /hello, GET /bye, POST /submit) is answered by     *)
(* that pair's handler: status 200, content type text/html, and that       *)
(* handler's title and content embedded in the HTML template.              *)
(***************************************************************************)
C6_RegisteredRouteServed ==
    \A c \in Conns : \A r \in Registered :
        (parsed[c].st = "Complete" /\ Names(c, r) /\ Did(c, "dispatch"))
            => /\ pc[c] # "panicked"
               /\ StatusOf(response[c]) = Code200
               /\ HeaderOf(response[c], ContentTypeName) = TextHtml
               /\ Embeds(BodyOf(response[c]), r.title, r.content)
               /\ WriteSucceeded(c) => wire[c] = response[c]

C6_Witness ==
    \E c \in Conns :
        /\ buffer[c] = PostSubmit /\ pc[c] = "done"
        /\ wire[c] = response[c]
        /\ Contains(wire[c], SubmitContent)

(***************************************************************************)
(* C7.  A successfully parsed request whose (path, method) is not a key of *)
(* the route table is answered by the not-found handler, without a fault:  *)
(* status 404 and the fixed "Not Found" content.                           *)
(***************************************************************************)
C7_UnmatchedIsNotFound ==
    \A c \in Conns :
        (/\ parsed[c].st = "Complete"
         /\ Did(c, "dispatch")
         /\ \A r \in Registered : ~Names(c, r))
            => /\ pc[c] # "panicked" /\ fault[c] = ""
               /\ StatusOf(response[c]) = Code404
               /\ HeaderOf(response[c], ContentTypeName) = TextHtml
               /\ Embeds(BodyOf(response[c]), NotFoundTitle, NotFoundContent)
               /\ WriteSucceeded(c) => wire[c] = response[c]

C7_Witness ==
    \E c \in Conns :
        /\ buffer[c] = GetMissing /\ pc[c] = "done"
        /\ wire[c] = response[c]
        /\ StatusOf(wire[c]) = Code404

(***************************************************************************)
(* C8.  Route matching is exact on both components: the lookup finds a     *)
(* handler exactly when the request path equals a registered path byte for *)
(* byte and the method is the one registered with it, so GET /Hello,       *)
(* GET /hello/ and POST /hello are answered 404.                           *)
(***************************************************************************)
C8_ExactMatch ==
    \A c \in Conns :
        (Did(c, "dispatch") /\ parsed[c].method.some /\ parsed[c].path.some)
            => /\ find_handler(parsed[c].path.val,
                               Method_from_bytes(parsed[c].method.val).val,
                               routes).some
                    <=> \E r \in Registered : Names(c, r)
               /\ StatusOf(response[c]) = Code200
                    <=> \E r \in Registered : Names(c, r)
               /\ buffer[c] \in {GetHelloCapital, GetHelloSlash, PostHello}
                    => StatusOf(response[c]) = Code404

C8_Witness ==
    \E c \in Conns :
        /\ buffer[c] = GetHelloCapital /\ pc[c] = "done"
        /\ wire[c] = response[c]
        /\ StatusOf(wire[c]) = Code404

\* reading Content-Length bytes from the body position gives the whole body
LengthMatchesBody(resp) ==
    LET n == ParseDecimal(HeaderOf(resp, ContentLengthName)) IN
    /\ n = Len(BodyOf(resp))
    /\ Take(BodyOf(resp), n) = BodyOf(resp)

\* texts a page may carry: empty, ASCII, and the two bytes of U+00E9
SampleTexts == {<<>>, <<"o","k">>, <<"xC3","xA9">>, <<"c","a","f","xC3","xA9">>}

\* the formatting of every page rendered from the sample texts
SampleLengthsMatch ==
    \A t \in SampleTexts : \A u \in SampleTexts :
        LengthMatchesBody(FormatResponse(create_response(t, u, 200)))

(***************************************************************************)
(* C9.  In every response handle_client writes, the Content-Length value   *)
(* is the exact number of bytes after the blank line; the same holds of    *)
(* the formatting of any rendered page, multi-byte text included.          *)
(***************************************************************************)
C9_ContentLengthExact ==
    /\ \A c \in Conns :
          response[c] # <<>>
              => /\ LengthMatchesBody(response[c])
                 /\ WriteSucceeded(c) => LengthMatchesBody(wire[c])
    /\ SampleLengthsMatch

C9_Witness ==
    \E c \in Conns :
        /\ pc[c] = "done" /\ WriteSucceeded(c)
        /\ wire[c] = response[c]
        /\ ParseDecimal(HeaderOf(wire[c], ContentLengthName)) > 100

\* the read of unit c returned Ok(0)
ZeroRead(c) == readResult[c] = "Ok" /\ buffer[c] = <<>>

(***************************************************************************)
(* C10.  A zero-length first read is a clean no-op: the unit returns with  *)
(* nothing written, nothing logged (by handle_client or by the closure     *)
(* that spawned it), no fault, and no step after the read.                 *)
(***************************************************************************)
C10_ZeroReadIsNoOp ==
    \A c \in Conns :
        ZeroRead(c)
            => /\ pc[c] = "done"
               /\ wire[c] = <<>>
               /\ log[c] = <<>>
               /\ fault[c] = ""
               /\ trace[c] = <<"read">>

C10_Witness ==
    \E c \in Conns : ZeroRead(c) /\ pc[c] = "done"

\* the accept loop is running and, while connections remain to be made,
\* ready to take the next one
LoopRunning ==
    /\ mainPc = "accept"
    /\ accepted < MaxConns => ENABLED AcceptOk(MaxConns)

\* this step accepts a connection: the next unborn unit starts at its read
\* with nothing read, written or logged
Spawns ==
    /\ accepted' = accepted + 1
    /\ pc[accepted'] = "unborn" /\ pc'[accepted'] = "read"
    /\ buffer'[accepted'] = <<>> /\ wire'[accepted'] = <<>>
    /\ trace'[accepted'] = <<>> /\ log'[accepted'] = <<>>

(***************************************************************************)
(* C11.  A failed accept is logged and the loop goes on: the failed accept *)
(* changes nothing but the log and leaves main in the accept loop, the     *)
(* loop after it can take the next connection as before, and a later       *)
(* accept whose thread is spawned starts a new unit.  An accept error      *)
(* never ends the process: main leaves the loop only at a spawn.           *)
(***************************************************************************)
C11_AcceptErrorContinues ==
    /\ [](/\ mainPc = "accept" => LoopRunning
          /\ \A i \in 1..Len(mainLog) :
                 mainLog[i].msg = "Error accepting connection")
    /\ [][/\ mainLog' # mainLog
               => /\ mainLog' = Append(mainLog, LogEntry("Error accepting connection", "io"))
                  /\ mainPc = "accept" /\ mainPc' = "accept"
                  /\ UNCHANGED <<routes, accepted, unitVars>>
          /\ (mainLog # <<>> /\ accepted' # accepted /\ mainPc' = "accept") => Spawns
          /\ (mainPc = "accept" /\ mainPc' # "accept")
               => mainLog' = mainLog /\ accepted' = accepted + 1]_vars

\* an accept has failed, and a connection has been accepted and served
C11_Witness ==
    /\ Len(mainLog) >= 1
    /\ mainPc = "accept"
    /\ \E c \in Conns :
           pc[c] = "done" /\ response[c] # <<>> /\ wire[c] = response[c]

\* the socket calls of unit c are not held up by anything outside the unit:
\* where it stands at a read, a write or a flush, that call can return
SocketCallsFree(c) ==
    /\ pc[c] = "read" => ENABLED ReadData(c, CorePayloads) /\ ENABLED ReadZero(c)
    /\ pc[c] = "write" => ENABLED WriteOk(c)
    /\ pc[c] = "flush" => ENABLED FlushOk(c)

\* What does hold of the loop: as long as main is in it the next accept is
\* possible whatever the units are doing, an accept whose thread is spawned
\* starts a fresh unit and touches no other, and no unit's read, write or
\* flush waits on another unit.
C12_LoopDoesNotWait ==
    /\ [](/\ mainPc = "accept" => LoopRunning
          /\ \A c \in Conns : SocketCallsFree(c))
    /\ [][(accepted' # accepted /\ mainPc' = "accept")
              => /\ Spawns
                 /\ \A d \in Conns \ {accepted'} : UnitState(d)' = UnitState(d)]_vars

(***************************************************************************)
(* C12.  Every accepted connection is handed to a freshly spawned unit and *)
(* the accept loop never waits on a unit: every connection accepted so far *)
(* has a unit, and whatever the units are doing (blocked in read, in write *)
(* or flush, failed) the loop is running and can accept the next           *)
(* connection.                                                             *)
(***************************************************************************)
C12_AcceptNeverWaits ==
    /\ \A c \in Conns : c <= accepted => pc[c] # "unborn"
    /\ accepted > 0 => LoopRunning
    /\ \A c \in Conns : SocketCallsFree(c)

\* the first unit is still blocked in its read, and the connection accepted
\* after it has been served to completion
C12_Witness ==
    /\ MaxConns >= 2
    /\ pc[1] = "read"
    /\ pc[2] = "done" /\ response[2] # <<>> /\ wire[2] = response[2]

\* the route table at the end of its construction
FinalRoutes ==
    HashMap_insert(
        HashMap_insert(
            HashMap_insert(EmptyRoutes, <<PathHello, Method_GET>>, "handle_hello"),
            <<PathBye, Method_GET>>, "handle_goodbye"),
        <<PathSubmit, Method_POST>>, "handle_submit")

(***************************************************************************)
(* C13.  The route table never changes after startup: it is complete       *)
(* before the accept loop starts, so whenever main is in the loop or any   *)
(* unit exists it has exactly the three registered keys with their         *)
(* handlers, and no step of the loop or of a unit changes it.              *)
(***************************************************************************)
C13_RoutesFrozen ==
    /\ []((mainPc = "accept" \/ accepted > 0 \/ \E c \in Conns : pc[c] # "unborn")
            => /\ routes = FinalRoutes
               /\ DOMAIN routes = {<<PathHello, Method_GET>>, <<PathBye, Method_GET>>,
                                   <<PathSubmit, Method_POST>>}
               /\ routes[<<PathHello, Method_GET>>] = "handle_hello"
               /\ routes[<<PathBye, Method_GET>>] = "handle_goodbye"
               /\ routes[<<PathSubmit, Method_POST>>] = "handle_submit")
    /\ [][mainPc = "accept" => routes' = routes]_vars

\* two units have looked routes up, one finding a handler and one not, and
\* the table is as it was built
C13_Witness ==
    /\ routes = FinalRoutes
    /\ \E c, d \in Conns :
           /\ pc[c] = "done" /\ StatusOf(response[c]) = Code200
           /\ pc[d] = "done" /\ StatusOf(response[d]) = Code404

\* the calls of handle_client in the order of its text
StepOrder == <<"read", "parse", "dispatch", "write_all", "flush">>

\* the steps unit c has taken are the first steps of handle_client, in
\* order and each once; a unit that returned after its write has flushed
StepsInOrder(c) ==
    /\ IsPrefix(trace[c], StepOrder)
    /\ \A name \in {StepOrder[i] : i \in 1..Len(StepOrder)} : Count(trace[c], name) <= 1
    /\ (pc[c] = "done" /\ Did(c, "write_all")) => Did(c, "flush")
    /\ wire[c] # <<>> => Did(c, "write_all")

\* The order of the steps alone: read, parse, dispatch, write, flush, each
\* at most once and none skipped, in every unit and every state.
C14_OrderHolds == \A c \in Conns : StepsInOrder(c)

(***************************************************************************)
(* C14.  Within one connection the steps are strictly sequential and each  *)
(* happens at most once (read, parse, dispatch, write, then flush before   *)
(* the unit returns), and no response is written before a successful       *)
(* parse: a unit that called write_all parsed a complete request.          *)
(***************************************************************************)
C14_SequentialSteps ==
    \A c \in Conns :
        /\ StepsInOrder(c)
        /\ Did(c, "write_all") => /\ Did(c, "parse")
                                  /\ parsed[c].st = "Complete"

\* the write_all of unit c returned Err
WriteFailed(c) == Logged(c, "Failed to write response")

\* the flush of unit c returned Err
FlushFailed(c) == Logged(c, "Failed to flush stream")

(***************************************************************************)
(* C15.  A write or flush failure is non-fatal: it is logged, the unit     *)
(* goes on to its end without a fault, the write is not repeated (one      *)
(* write_all call, and the wire holds only a proper prefix of the          *)
(* response), and the accept loop is untouched by it.                      *)
(***************************************************************************)
C15_WriteFailureNonFatal ==
    /\ [](\A c \in Conns :
            /\ WriteFailed(c)
                 => /\ Count(trace[c], "write_all") = 1
                    /\ Len(wire[c]) < Len(response[c])
                    /\ IsPrefix(wire[c], response[c])
                    /\ fault[c] = "" /\ pc[c] \in {"flush", "done", "killed"}
            /\ FlushFailed(c)
                 => /\ Count(trace[c], "flush") = 1
                    /\ fault[c] = "" /\ pc[c] = "done"
            /\ (Did(c, "write_all") /\ ~WriteFailed(c)) => wire[c] = response[c])
    /\ [][\A c \in Conns :
            /\ (pc[c] = "write" /\ trace'[c] # trace[c] /\ wire'[c] # response[c])
                 => /\ log'[c] = Append(log[c], LogEntry("Failed to write response", "io"))
                    /\ pc'[c] = "flush"
                    /\ UNCHANGED mainVars
                    /\ mainPc = "accept" => LoopRunning
            /\ WriteFailed(c) => wire'[c] = wire[c] /\ trace'[c] \in {trace[c], Append(trace[c], "flush")}
            /\ (pc[c] = "flush" /\ log'[c] # log[c])
                 => /\ log'[c] = Append(log[c], LogEntry("Failed to flush stream", "io"))
                    /\ pc'[c] = "done"
                    /\ UNCHANGED mainVars
                    /\ mainPc = "accept" => LoopRunning
            /\ (pc[c] \in {"write", "flush"} /\ pc'[c] = "killed")
                 => mainPc = "panicked" /\ UNCHANGED <<wire, log, trace>>]_vars

\* one unit's write failed part-way and its flush failed too; the unit has
\* ended and the connection accepted next has been served
C15_Witness ==
    \E c, d \in Conns :
        /\ c # d
        /\ pc[c] = "done" /\ WriteFailed(c) /\ FlushFailed(c)
        /\ wire[c] # <<>>
        /\ pc[d] = "done" /\ wire[d] = response[d] /\ response[d] # <<>>

\* the single read of unit c returned Err
ReadFailed(c) == readResult[c] = "Err"

(***************************************************************************)
(* C16.  A real read error ends the connection with nothing written and    *)
(* exactly one log entry, the closure's "Error handling client"; a         *)
(* zero-byte read ends it with no log entry at all; in both cases the read *)
(* is the unit's only step: no parse, no dispatch, no write.               *)
(***************************************************************************)
C16_ReadFailureEndsUnit ==
    \A c \in Conns :
        /\ ReadFailed(c)
             => /\ pc[c] = "done" /\ fault[c] = ""
                /\ log[c] = <<LogEntry("Error handling client", "io")>>
                /\ trace[c] = <<"read">>
                /\ wire[c] = <<>> /\ response[c] = <<>>
        /\ ZeroRead(c)
             => /\ pc[c] = "done" /\ fault[c] = ""
                /\ log[c] = <<>>
                /\ trace[c] = <<"read">>
                /\ wire[c] = <<>> /\ response[c] = <<>>

\* one connection ended on a read error and another on a zero-byte read
C16_Witness ==
    \E c, d \in Conns :
        /\ ReadFailed(c) /\ pc[c] = "done" /\ Logged(c, "Error handling client")
        /\ ZeroRead(d) /\ pc[d] = "done" /\ log[d] = <<>>

\* what the socket did to unit c: the result of its read and, where it got
\* that far, whether write_all and flush failed and how many bytes went out
SocketOutcomes(c) ==
    <<readResult[c], buffer[c], trace[c], WriteFailed(c), Len(wire[c]), FlushFailed(c)>>

\* what a unit that read data makes of it, computed from the bytes alone
\* and the route table built at startup
OutcomeOf(data) ==
    LET request == from_utf8_lossy(data)
        result == Request_parse(request)
    IN [parsed |-> result,
        dispatched |-> IF result.st = "Err"
                       THEN [panic |-> "", response |-> <<>>]
                       ELSE Dispatched(request, result, FinalRoutes)]

\* OutcomeOf for every content a buffer can have, an empty one included
KnownOutcomes ==
    [data \in {Take(p, BufSize) : p \in Payloads \cup {<<>>}} |-> OutcomeOf(data)]

\* the outcome of unit c is the one its own bytes determine
OwnOutcome(c) ==
    LET o == KnownOutcomes[buffer[c]] IN
        /\ Did(c, "parse") => parsed[c] = o.parsed
        /\ Did(c, "dispatch") => /\ response[c] = o.dispatched.response
                                 /\ fault[c] = o.dispatched.panic
        /\ IsPrefix(wire[c], o.dispatched.response)
        /\ (Did(c, "write_all") /\ ~WriteFailed(c)) => wire[c] = o.dispatched.response

(***************************************************************************)
(* C17.  Connection units share no mutable state: what a unit parses,      *)
(* answers and writes is determined by its own read result and the         *)
(* outcomes of its own socket calls, whatever the other units received and *)
(* however their steps interleave.  Two units given the same bytes and the *)
(* same socket outcomes are in the same state, and a step of one unit      *)
(* changes nothing of another.                                             *)
(***************************************************************************)
C17_UnitsAreIsolated ==
    /\ [](/\ \A c \in Conns : OwnOutcome(c)
          /\ \A c, d \in Conns :
                (/\ pc[c] # "unborn" /\ pc[d] # "unborn"
                 /\ SocketOutcomes(c) = SocketOutcomes(d)) => UnitState(c) = UnitState(d))
    /\ [][\A c, d \in Conns :
             (c # d /\ trace'[c] # trace[c]) => UnitState(d)' = UnitState(d)]_vars

\* two connections received different requests, each was answered with its
\* own response (one 200, one 404), and the first to be accepted was the
\* last to finish
C17_Witness ==
    /\ MaxConns >= 2
    /\ pc[1] = "done" /\ pc[2] = "done"
    /\ buffer[1] = GetHello /\ buffer[2] = GetMissing
    /\ wire[1] = response[1] /\ StatusOf(response[1]) = Code200
    /\ wire[2] = response[2] /\ StatusOf(response[2]) = Code404

\* the places in handle_client where a thread can wait on the socket
BlockingCalls == {"read", "write", "flush"}

\* unit c is running: spawned and not yet returned or unwound
Running(c) == pc[c] \in RunningPcs

(***************************************************************************)
(* C18.  Each connection unit makes exactly one read call and has no loop  *)
(* or retry: a unit stands at the read only before its first step, every   *)
(* step of a unit is the next call of handle_client (so a unit takes at    *)
(* most five steps, four after the read returned), a unit that ended       *)
(* takes no further step, and a running unit is at one of the blocking     *)
(* socket calls, which can return, or at the parse or the dispatch, which  *)
(* are computations on the bytes already read.  So a unit whose read has   *)
(* returned, and which does not stay for ever in a computation or in a     *)
(* write or flush call, ends: it returns or panics, or the process ends    *)
(* under it.                                                               *)
(***************************************************************************)
C18_OneReadThenTerminates ==
    /\ [](\A c \in Conns :
            /\ Count(trace[c], "read") <= 1
            /\ Len(trace[c]) <= Len(StepOrder)
            /\ readResult[c] # "" <=> Did(c, "read")
            /\ pc[c] = "read" => trace[c] = <<>> /\ readResult[c] = ""
            /\ Ended(c) => Count(trace[c], "read") = 1
            /\ Running(c) => /\ pc[c] \in BlockingCalls \cup {"parse", "dispatch"}
                             /\ SocketCallsFree(c)
                             /\ pc[c] \notin BlockingCalls => buffer[c] # <<>>)
    /\ [][\A c \in Conns :
            (pc[c] # "unborn" /\ UnitState(c)' # UnitState(c))
                => /\ Running(c)
                   /\ \/ \E name \in {"read", "parse", "dispatch", "write_all", "flush"} :
                            trace'[c] = Append(trace[c], name)
                      \/ pc'[c] = "killed" /\ mainPc' = "exited" /\ trace'[c] = trace[c]
                   /\ pc'[c] # "read"
                   /\ buffer[c] # <<>> => buffer'[c] = buffer[c]]_vars
    /\ \A c \in Conns :
          []<>(pc[c] \notin {"parse", "dispatch", "write", "flush"})
              => (readResult[c] # "" ~> (Ended(c) \/ pc[c] = "killed"))

\* a unit whose read brought a request cut short in its headers did not
\* read again: it ran its five steps and returned
C18_Witness ==
    \E c \in Conns :
        /\ buffer[c] = CutInHeaders /\ parsed[c].st = "Partial"
        /\ trace[c] = StepOrder /\ pc[c] = "done"

\* the log messages of handle_client's own steps
StepMessages ==
    {"Failed to parse request", "Failed to write response", "Failed to flush stream"}

(***************************************************************************)
(* C19.  After a failed write_all the unit still attempts the flush and    *)
(* then returns normally.  A write or flush failure is reported only by    *)
(* the log entry of its own step; the closure's "Error handling client"    *)
(* entry is written for a read error and for nothing else.                 *)
(***************************************************************************)
C19_FlushAfterFailedWrite ==
    /\ [](\A c \in Conns :
            /\ WriteFailed(c)
                 => /\ pc[c] \in {"flush", "done", "killed"} /\ fault[c] = ""
                    /\ pc[c] = "flush" => ENABLED FlushOk(c) /\ ENABLED FlushErr(c)
                    /\ pc[c] = "done" => trace[c] = StepOrder
                    /\ pc[c] = "killed" => mainPc = "exited" /\ ~Did(c, "flush")
                    /\ log[c][1] = LogEntry("Failed to write response", "io")
            /\ Logged(c, "Error handling client") <=> ReadFailed(c)
            /\ ~ReadFailed(c) => \A i \in 1..Len(log[c]) : log[c][i].msg \in StepMessages
            /\ (WriteFailed(c) \/ FlushFailed(c)) => ~Logged(c, "Error handling client"))
    /\ [][\A c \in Conns :
            (WriteFailed(c) /\ trace'[c] # trace[c])
                => /\ trace'[c] = Append(trace[c], "flush")
                   /\ pc'[c] = "done"
                   /\ log'[c] \in {log[c], Append(log[c], LogEntry("Failed to flush stream", "io"))}
                   /\ wire'[c] = wire[c]]_vars

\* one unit's write failed, its flush went through and it returned with
\* the write failure as its only log entry; another unit's read failed and
\* was logged by the closure
C19_Witness ==
    \E c, d \in Conns :
        /\ pc[c] = "done" /\ trace[c] = StepOrder
        /\ log[c] = <<LogEntry("Failed to write response", "io")>>
        /\ ReadFailed(d) /\ log[d] = <<LogEntry("Error handling client", "io")>>

====
